---- MODULE Spec2Model ----
(***************************************************************************)
(* Move generation of chessington/engine/pieces.py: the six piece kinds'   *)
(* get_available_moves and Piece.move_to, over the 8x8 board they query.   *)
(***************************************************************************)
EXTENDS Integers, Sequences, FiniteSets, TLC

\* ------------------------------------------------------------------ data
\* Board edge used by every range test "0 <= new_row < 8 and 0 <= new_col < 8".
BoardSize == 8

\* Number of files (columns 0 .. GameFiles-1) a game's set_piece / move_to
\* calls name; queries always read the whole 8x8 board.
GameFiles == 1

Players == {"WHITE", "BLACK"}

Kinds == {"Pawn", "Knight", "Bishop", "Rook", "Queen", "King"}

Coords == 0 .. (BoardSize - 1)

Squares == Coords \X Coords

None == [kind |-> "None"]

\* Piece.__init__: a piece object carries only its class and its player; id
\* stands for the object's identity (two Pawn(WHITE) objects are distinct).
Piece(i, k, pl) == [id |-> i, kind |-> k, player |-> pl]

\* The piece objects a caller may construct: object 0 of any kind and owner,
\* and object 1, a pawn of either owner (the blocker / capture target of the
\* tests).
Pieces ==
    {Piece(0, k, pl) : k \in Kinds, pl \in Players}
        \cup {Piece(1, "Pawn", pl) : pl \in Players}

\* Square.at(row, col): squares are (row, col) pairs; a pair outside
\* [0,7]x[0,7] is not a square (OutOfBoundsError).
InRange(row, col) == row \in Coords /\ col \in Coords

\* A board is kept as the graph of its occupancy map: the set of
\* <<square, piece>> pairs of the occupied squares.

\* Board.empty()
EmptyBoard == {}

\* Board.get_piece(square)
get_piece(b, sq) ==
    IF \E x \in b : x[1] = sq THEN (CHOOSE x \in b : x[1] = sq)[2] ELSE None

OnBoard(b, p) == \E x \in b : x[2] = p

\* Board.find_piece(piece): the square holding the piece (PieceNotFoundError
\* when there is none; callers test OnBoard first).
find_piece(b, p) == (CHOOSE x \in b : x[2] = p)[1]

\* Board.set_piece(square, piece)
set_piece(b, sq, p) ==
    {x \in b : x[1] # sq} \cup (IF p = None THEN {} ELSE {<<sq, p>>})

\* Board.move_piece(from_square, to_square)
move_piece(b, from, to) ==
    set_piece(set_piece(b, from, None), to, get_piece(b, from))

\* ------------------------------------------------------- outcome of a call
Returned(ms, b) == [raised |-> "none", moves |-> ms, board |-> b]

Raised(e, b) == [raised |-> e, moves |-> <<>>, board |-> b]

\* ---------------------------------------------------------------- helpers
RECURSIVE SeqToSet(_)
SeqToSet(s) == IF s = <<>> THEN {} ELSE {Head(s)} \cup SeqToSet(Tail(s))

\* Walk that does not stop after a capture.
RECURSIVE WalkThrough(_, _, _, _, _, _)
WalkThrough(b, player, row, col, dr, dc) ==
    LET new_row == row + dr
        new_col == col + dc
    IN  IF ~(0 <= new_row /\ new_row < BoardSize /\ 0 <= new_col /\ new_col < BoardSize)
        THEN <<>>
        ELSE LET target_square == <<new_row, new_col>>
                 piece_at_target == get_piece(b, target_square)
             IN  IF piece_at_target = None \/ piece_at_target.player # player
                 THEN <<target_square>> \o WalkThrough(b, player, new_row, new_col, dr, dc)
                 ELSE <<>>

\* The "while True" walk shared verbatim by Bishop, Rook and Queen: from
\* (row, col), step by (dr, dc); off the board: stop; empty: append and go
\* on; occupied: append iff the occupant is the other player's, then stop.
RECURSIVE Walk(_, _, _, _, _, _)
Walk(b, player, row, col, dr, dc) ==
    LET new_row == row + dr
        new_col == col + dc
    IN  IF ~(0 <= new_row /\ new_row < BoardSize /\ 0 <= new_col /\ new_col < BoardSize)
        THEN <<>>
        ELSE LET target_square == <<new_row, new_col>>
                 piece_at_target == get_piece(b, target_square)
             IN  IF piece_at_target = None
                 THEN <<target_square>> \o Walk(b, player, new_row, new_col, dr, dc)
                 ELSE IF piece_at_target.player # player
                      THEN <<target_square>>
                      ELSE <<>>

\* "for dr, dc in directions": the walks of the directions, concatenated in
\* list order.
RECURSIVE Slide(_, _, _, _)
Slide(b, player, cur, directions) ==
    IF directions = <<>> THEN <<>>
    ELSE Walk(b, player, cur[1], cur[2], Head(directions)[1], Head(directions)[2])
            \o Slide(b, player, cur, Tail(directions))

\* Step that forgets the occupancy test.
RECURSIVE StepAnywhere(_, _, _, _)
StepAnywhere(b, player, cur, offsets) ==
    IF offsets = <<>> THEN <<>>
    ELSE LET new_row == cur[1] + Head(offsets)[1]
             new_col == cur[2] + Head(offsets)[2]
             rest == StepAnywhere(b, player, cur, Tail(offsets))
         IN  IF 0 <= new_row /\ new_row < BoardSize /\ 0 <= new_col /\ new_col < BoardSize
             THEN <<(<<new_row, new_col>>)>> \o rest
             ELSE rest

\* "for dr, dc in jumps": one candidate per offset, kept iff it is on the
\* board and empty or held by the other player (Knight and King share it).
RECURSIVE Step(_, _, _, _)
Step(b, player, cur, offsets) ==
    IF offsets = <<>> THEN <<>>
    ELSE LET new_row == cur[1] + Head(offsets)[1]
             new_col == cur[2] + Head(offsets)[2]
             rest == Step(b, player, cur, Tail(offsets))
         IN  IF 0 <= new_row /\ new_row < BoardSize /\ 0 <= new_col /\ new_col < BoardSize
             THEN LET piece_at_target == get_piece(b, <<new_row, new_col>>)
                  IN  IF piece_at_target = None \/ piece_at_target.player # player
                      THEN <<(<<new_row, new_col>>)>> \o rest
                      ELSE rest
             ELSE rest

\* ------------------------------------------------------------ piece rules
BishopDirections == << <<-1, -1>>, <<-1, 1>>, <<1, -1>>, <<1, 1>> >>

RookDirections == << <<-1, 0>>, <<1, 0>>, <<0, -1>>, <<0, 1>> >>

\* Direction list with the last diagonal missing.
QueenDirectionsShort ==
    << <<-1, 0>>, <<1, 0>>, <<0, -1>>, <<0, 1>>,
       <<-1, -1>>, <<-1, 1>>, <<1, -1>> >>

QueenDirections ==
    << <<-1, 0>>, <<1, 0>>, <<0, -1>>, <<0, 1>>,
       <<-1, -1>>, <<-1, 1>>, <<1, -1>>, <<1, 1>> >>

KnightJumps ==
    << <<-2, -1>>, <<-2, 1>>, <<-1, -2>>, <<-1, 2>>,
       <<1, -2>>, <<1, 2>>, <<2, -1>>, <<2, 1>> >>

KingDirections ==
    << <<-1, -1>>, <<-1, 0>>, <<-1, 1>>, <<0, -1>>,
       <<0, 1>>, <<1, -1>>, <<1, 0>>, <<1, 1>> >>

PawnDirection(player) == IF player = "WHITE" THEN 1 ELSE -1

\* Start rows of the two players swapped.
PawnStartingRowSwapped(player) == IF player = "WHITE" THEN 6 ELSE 1

PawnStartingRow(player) == IF player = "WHITE" THEN 1 ELSE 6

\* Pawn rule that offers the two-step square from any row.
PawnMovesAlwaysTwo(b, p) ==
    IF ~OnBoard(b, p) THEN Raised("PieceNotFoundError", b)
    ELSE
    LET current_square == find_piece(b, p)
        direction == PawnDirection(p.player)
        one_row == current_square[1] + direction
        two_row == current_square[1] + 2 * direction
        col == current_square[2]
    IN  IF ~InRange(one_row, col) THEN Raised("OutOfBoundsError", b)
        ELSE IF get_piece(b, <<one_row, col>>) = None
        THEN IF ~InRange(two_row, col) THEN Raised("OutOfBoundsError", b)
             ELSE IF get_piece(b, <<two_row, col>>) = None
                  THEN Returned(<< <<one_row, col>>, <<two_row, col>> >>, b)
                  ELSE Returned(<< <<one_row, col>> >>, b)
        ELSE Returned(<<>>, b)

\* Pawn.get_available_moves
PawnMoves(b, p) ==
    IF ~OnBoard(b, p) THEN Raised("PieceNotFoundError", b)
    ELSE
    LET current_square == find_piece(b, p)
        direction == PawnDirection(p.player)
        starting_row == PawnStartingRow(p.player)
        one_row == current_square[1] + direction
        two_row == current_square[1] + 2 * direction
        col == current_square[2]
    IN  IF ~InRange(one_row, col) THEN Raised("OutOfBoundsError", b)
        ELSE IF get_piece(b, <<one_row, col>>) = None
        THEN IF current_square[1] = starting_row
             THEN IF ~InRange(two_row, col) THEN Raised("OutOfBoundsError", b)
                  ELSE IF get_piece(b, <<two_row, col>>) = None
                       THEN Returned(<< <<one_row, col>>, <<two_row, col>> >>, b)
                       ELSE Returned(<< <<one_row, col>> >>, b)
             ELSE Returned(<< <<one_row, col>> >>, b)
        ELSE Returned(<<>>, b)

\* Knight.get_available_moves
KnightMoves(b, p) ==
    IF ~OnBoard(b, p) THEN Raised("PieceNotFoundError", b)
    ELSE Returned(Step(b, p.player, find_piece(b, p), KnightJumps), b)

\* Bishop.get_available_moves
BishopMoves(b, p) ==
    IF ~OnBoard(b, p) THEN Raised("PieceNotFoundError", b)
    ELSE Returned(Slide(b, p.player, find_piece(b, p), BishopDirections), b)

\* The board without the occupants of the squares in ms.
Taken(b, ms) == {x \in b : x[1] \notin SeqToSet(ms)}

\* Queen rule that removes what it could capture.
QueenMovesTaking(b, p) ==
    IF ~OnBoard(b, p) THEN Raised("PieceNotFoundError", b)
    ELSE LET moves == Slide(b, p.player, find_piece(b, p), QueenDirections)
         IN  Returned(moves, Taken(b, moves))

\* Queen.get_available_moves
QueenMoves(b, p) ==
    IF ~OnBoard(b, p) THEN Raised("PieceNotFoundError", b)
    ELSE Returned(Slide(b, p.player, find_piece(b, p), QueenDirections), b)

\* King.get_available_moves
KingMoves(b, p) ==
    IF ~OnBoard(b, p) THEN Raised("PieceNotFoundError", b)
    ELSE Returned(Step(b, p.player, find_piece(b, p), KingDirections), b)

\* Rook rule that removes what it could capture.
RookMovesTaking(b, p) ==
    IF ~OnBoard(b, p) THEN Raised("PieceNotFoundError", b)
    ELSE LET moves == Slide(b, p.player, find_piece(b, p), RookDirections)
         IN  Returned(moves, Taken(b, moves))

\* Rook.get_available_moves
RookMoves(b, p) ==
    IF ~OnBoard(b, p) THEN Raised("PieceNotFoundError", b)
    ELSE Returned(Slide(b, p.player, find_piece(b, p), RookDirections), b)

\* piece.get_available_moves(board): dispatch on the piece's class.
get_available_moves(b, p) ==
    CASE p.kind = "Pawn" -> PawnMoves(b, p)
      [] p.kind = "Knight" -> KnightMoves(b, p)
      [] p.kind = "Bishop" -> BishopMoves(b, p)
      [] p.kind = "Queen" -> QueenMoves(b, p)
      [] p.kind = "King" -> KingMoves(b, p)
      [] p.kind = "Rook" -> RookMoves(b, p)

\* move_to that relocates only to a square the piece's rule offers.
move_to_validated(b, p, new_square) ==
    IF ~OnBoard(b, p) THEN Raised("PieceNotFoundError", b)
    ELSE IF new_square \in SeqToSet(get_available_moves(b, p).moves)
         THEN Returned(<<>>, move_piece(b, find_piece(b, p), new_square))
         ELSE Returned(<<>>, b)

\* move_to that places a piece it does not find.
move_to_placing(b, p, new_square) ==
    IF ~OnBoard(b, p) THEN Returned(<<>>, set_piece(b, new_square, p))
    ELSE Returned(<<>>, move_piece(b, find_piece(b, p), new_square))

\* Piece.move_to
move_to(b, p, new_square) ==
    IF ~OnBoard(b, p) THEN Raised("PieceNotFoundError", b)
    ELSE Returned(<<>>, move_piece(b, find_piece(b, p), new_square))

\* ------------------------------------------------------------------ state
\* board:  the Board object's occupancy;
\* pool:   the piece objects the caller has constructed;
\* lastOp: the call made last and its receiver, result: what it returned or
\*         raised;
\* lastMove: the last set_piece / move_to call that completed, with its square
\*         and the occupant it overwrote (history only, read by no operation).
VARIABLES board, pool, lastOp, result, lastMove

vars == <<board, pool, lastOp, result, lastMove>>

NoOp == [op |-> "none"]

NoResult == [raised |-> "none", moves |-> <<>>]

\* The two piece objects of a game: a white object 0 of any kind and a pawn
\* of either owner (a friendly or a hostile pair; both pawn directions).
Pools ==
    {{p, q} : p \in {x \in Pieces : x.id = 0 /\ x.player = "WHITE"},
              q \in {x \in Pieces : x.id = 1}}

\* Squares a game's set_piece / move_to calls name.
GameSquares == {s \in Squares : s[2] < GameFiles}

\* Query whose pawn remembers having been moved: after its own move_to it is
\* offered at most the one-step square, whatever row it stands on.
GetAvailableMovesRemembering(p) ==
    LET out == get_available_moves(board, p)
        moved == p.kind = "Pawn" /\ lastMove.op = "move_to" /\ lastMove.piece = p
    IN  /\ board' = out.board
        /\ result' = [raised |-> out.raised,
                       moves |-> IF moved /\ Len(out.moves) > 1
                                 THEN <<Head(out.moves)>> ELSE out.moves]
        /\ lastOp' = [op |-> "get_available_moves", piece |-> p]
        /\ UNCHANGED <<pool, lastMove>>

\* piece.get_available_moves(board) called by the harness.
GetAvailableMoves(p) ==
    LET out == get_available_moves(board, p)
    IN  /\ board' = out.board
        /\ result' = [raised |-> out.raised, moves |-> out.moves]
        /\ lastOp' = [op |-> "get_available_moves", piece |-> p]
        /\ UNCHANGED <<pool, lastMove>>

\* piece.move_to(board, new_square) called by the harness.
MoveTo(p, sq) ==
    LET out == move_to(board, p, sq)
    IN  /\ board' = out.board
        /\ result' = [raised |-> out.raised, moves |-> out.moves]
        /\ lastOp' = [op |-> "move_to", piece |-> p]
        /\ lastMove' = IF out.raised = "none"
                       THEN [op |-> "move_to", piece |-> p, square |-> sq,
                             took |-> get_piece(board, sq)]
                       ELSE lastMove
        /\ UNCHANGED pool

\* board.set_piece(square, piece) called by the harness, for a piece object
\* that is not on the board at that moment.
SetPiece(sq, p) ==
    /\ ~OnBoard(board, p)
    /\ board' = set_piece(board, sq, p)
    /\ result' = NoResult
    /\ lastOp' = [op |-> "set_piece", piece |-> p]
    /\ lastMove' = [op |-> "set_piece", piece |-> p, square |-> sq,
                    took |-> get_piece(board, sq)]
    /\ UNCHANGED pool

\* A game: Board.empty(), then any calls.
Init ==
    /\ pool \in Pools
    /\ board = EmptyBoard
    /\ lastOp = NoOp
    /\ result = NoResult
    /\ lastMove = NoOp

Next ==
    \/ \E p \in pool : GetAvailableMoves(p)
    \/ \E p \in pool, sq \in GameSquares : MoveTo(p, sq)
    \/ \E p \in pool, sq \in GameSquares : SetPiece(sq, p)

Spec == Init /\ [][Next]_vars

\* A single query on an arranged board: the harness has placed object 0 on
\* any square and possibly the pawn on any other, then asks object 0 for its
\* moves.
InitQuery ==
    /\ \E p \in {x \in Pieces : x.id = 0}, sq \in Squares :
          \/ /\ pool = {p}
             /\ board = set_piece(EmptyBoard, sq, p)
          \/ \E o \in {x \in Pieces : x.id = 1}, osq \in Squares \ {sq} :
                /\ pool = {p, o}
                /\ board = set_piece(set_piece(EmptyBoard, sq, p), osq, o)
    /\ lastOp = NoOp
    /\ result = NoResult
    /\ lastMove = NoOp

Query == \E p \in pool : p.id = 0 /\ GetAvailableMoves(p)

NextQuery == Query

SpecQuery == InitQuery /\ [][NextQuery]_vars

\* ------------------------------------------------- vocabulary of the claims
Queried == lastOp.op = "get_available_moves"

Completed == Queried /\ result.raised = "none"

QueriedKind(ks) == Queried /\ lastOp.piece.kind \in ks

\* Square of the queried piece, its owner, and the returned squares as a set.
Cur == find_piece(board, lastOp.piece)

Owner == lastOp.piece.player

ResultSet == SeqToSet(result.moves)

Empty(b, sq) == get_piece(b, sq) = None

Hostile(b, sq, player) == ~Empty(b, sq) /\ get_piece(b, sq).player # player

Friendly(b, sq, player) == ~Empty(b, sq) /\ get_piece(b, sq).player = player

\* The square k steps from cur along d (possibly off the board).
At(cur, d, k) == <<cur[1] + k * d[1], cur[2] + k * d[2]>>

Diagonals == {d \in {-1, 1} \X {-1, 1} : TRUE}

Orthogonals == {d \in {-1, 0, 1} \X {-1, 0, 1} : (d[1] = 0) # (d[2] = 0)}

LineDirections(kind) ==
    CASE kind = "Bishop" -> Diagonals
      [] kind = "Rook" -> Orthogonals
      [] kind = "Queen" -> Diagonals \cup Orthogonals

\* Squares reached along the directions ds: every on-board square all of whose
\* nearer squares on the line are empty and that is empty or hostile itself.
LineReach(b, cur, player, ds) ==
    UNION {{At(cur, d, k) : k \in {n \in 1 .. (BoardSize - 1) :
                /\ At(cur, d, n) \in Squares
                /\ \A j \in 1 .. (n - 1) : Empty(b, At(cur, d, j))
                /\ Empty(b, At(cur, d, n)) \/ Hostile(b, At(cur, d, n), player)}}
           : d \in ds}

\* C1: a bishop's, rook's or queen's result is exactly, per direction, the run
\* of empty squares from the piece plus the first occupied square iff it is
\* hostile; nothing beyond the first occupied square, never a friendly square.
C1_SlidingExact ==
    QueriedKind({"Bishop", "Rook", "Queen"}) =>
        /\ result.raised = "none"
        /\ ResultSet = LineReach(board, Cur, Owner, LineDirections(lastOp.piece.kind))
        /\ \A t \in ResultSet : ~Friendly(board, t, Owner)

\* A slider that captured a hostile piece at distance >= 2 and left out the
\* on-board square behind it.
C1_Witness ==
    /\ QueriedKind({"Bishop", "Rook", "Queen"})
    /\ result.raised = "none"
    /\ \E d \in LineDirections(lastOp.piece.kind), k \in 2 .. (BoardSize - 2) :
          /\ At(Cur, d, k + 1) \in Squares
          /\ Hostile(board, At(Cur, d, k), Owner)
          /\ At(Cur, d, k) \in ResultSet
          /\ At(Cur, d, k - 1) \in ResultSet
          /\ At(Cur, d, k + 1) \notin ResultSet

KnightOffsets ==
    {d \in (-2 .. 2) \X (-2 .. 2) : d[1] # 0 /\ d[2] # 0 /\ d[1] * d[1] + d[2] * d[2] = 5}

KingOffsets == ({-1, 0, 1} \X {-1, 0, 1}) \ {<<0, 0>>}

HopOffsets(kind) == IF kind = "Knight" THEN KnightOffsets ELSE KingOffsets

HopReach(b, cur, player, offs) ==
    {At(cur, d, 1) : d \in {e \in offs :
        /\ At(cur, e, 1) \in Squares
        /\ Empty(b, At(cur, e, 1)) \/ Hostile(b, At(cur, e, 1), player)}}

\* C2: a knight's or king's result is exactly the on-board squares current +
\* offset that are empty or hostile, each once; so a lone knight has 8 moves
\* from (4,4) and {(1,2),(2,1)} from (0,0), and a king stays within one step.
C2_SteppingExact ==
    QueriedKind({"Knight", "King"}) =>
        /\ result.raised = "none"
        /\ ResultSet = HopReach(board, Cur, Owner, HopOffsets(lastOp.piece.kind))
        /\ Len(result.moves) = Cardinality(ResultSet)
        /\ (lastOp.piece.kind = "Knight" /\ Cardinality(board) = 1 /\ Cur = <<4, 4>>)
              => Cardinality(ResultSet) = 8
        /\ (lastOp.piece.kind = "Knight" /\ Cardinality(board) = 1 /\ Cur = <<0, 0>>)
              => ResultSet = {<<1, 2>>, <<2, 1>>}
        /\ lastOp.piece.kind = "King" =>
              \A t \in ResultSet : t[1] - Cur[1] \in {-1, 0, 1} /\ t[2] - Cur[2] \in {-1, 0, 1}

\* A knight near the edge with a friendly piece on one candidate and fewer
\* than 8 moves, or a king that captures next to it.
C2_Witness ==
    /\ QueriedKind({"Knight", "King"})
    /\ result.raised = "none"
    /\ \E d \in HopOffsets(lastOp.piece.kind) : At(Cur, d, 1) \notin Squares
    /\ \E d \in HopOffsets(lastOp.piece.kind) :
          /\ At(Cur, d, 1) \in Squares
          /\ Hostile(board, At(Cur, d, 1), Owner)
          /\ At(Cur, d, 1) \in ResultSet

FirstPlayer == "WHITE"

Forward(player) == IF player = FirstPlayer THEN 1 ELSE -1

StartRow(player) == IF player = FirstPlayer THEN 1 ELSE 6

OneAhead(cur, player) == <<cur[1] + Forward(player), cur[2]>>

TwoAhead(cur, player) == <<cur[1] + 2 * Forward(player), cur[2]>>

PawnReach(b, cur, player) ==
    {t \in {OneAhead(cur, player)} : Empty(b, t)}
        \cup {t \in {TwoAhead(cur, player)} :
                /\ Empty(b, OneAhead(cur, player))
                /\ cur[1] = StartRow(player)
                /\ Empty(b, t)}

\* C3: a pawn whose one-step and two-step squares are on the board gets the
\* square ahead iff it is empty, and the square two ahead iff moreover the
\* pawn is on its start row and that square is empty; nothing else.
C3_PawnExact ==
    (/\ QueriedKind({"Pawn"})
     /\ OnBoard(board, lastOp.piece)
     /\ OneAhead(Cur, Owner) \in Squares
     /\ TwoAhead(Cur, Owner) \in Squares) =>
        /\ result.raised = "none"
        /\ ResultSet = PawnReach(board, Cur, Owner)
        /\ \A t \in ResultSet : t[2] = Cur[2] /\ Empty(board, t)

\* A pawn on its start row given both squares.
C3_Witness ==
    /\ QueriedKind({"Pawn"})
    /\ result.raised = "none"
    /\ Cur[1] = StartRow(Owner)
    /\ result.moves = <<OneAhead(Cur, Owner), TwoAhead(Cur, Owner)>>

\* C5: every query completes without raising and returns only squares of the
\* board; no square outside [0,7]x[0,7] is constructed.
C5_NeverRaisesInRange ==
    (Queried /\ OnBoard(board, lastOp.piece)) =>
        /\ result.raised = "none"
        /\ ResultSet \subseteq Squares

\* The piece of kind k that stands in for piece p: same owner, same object slot.
Recast(p, k) == Piece(p.id, k, p.player)

\* C6: a queen's squares are the union of the squares a rook and a bishop of
\* the same owner get on the queen's square with the rest of the board equal.
C6_QueenIsRookPlusBishop ==
    (QueriedKind({"Queen"}) /\ OnBoard(board, lastOp.piece)) =>
        LET rook == Recast(lastOp.piece, "Rook")
            bishop == Recast(lastOp.piece, "Bishop")
        IN  /\ result.raised = "none"
            /\ ResultSet =
                  SeqToSet(get_available_moves(set_piece(board, Cur, rook), rook).moves)
                     \cup SeqToSet(get_available_moves(set_piece(board, Cur, bishop), bishop).moves)

\* A queen with a blocked line whose result has both straight and diagonal
\* squares.
C6_Witness ==
    /\ QueriedKind({"Queen"})
    /\ result.raised = "none"
    /\ Cardinality(board) = 2
    /\ \E t \in ResultSet : t[1] = Cur[1]
    /\ \E t \in ResultSet : t[1] # Cur[1] /\ t[2] # Cur[2]
    /\ \E d \in LineDirections("Queen") :
          ~Empty(board, At(Cur, d, 1)) /\ At(Cur, d, 1) \notin ResultSet

\* C4: a pawn moved by move_to from its start row to the square ahead is then
\* offered the next square ahead (if empty) and not the one two ahead; after
\* any calls, a pawn is offered its two-step square only on its start row.
C4_TwoStepOnlyOnStartRow ==
    /\ [](QueriedKind({"Pawn"}) /\ OnBoard(board, lastOp.piece) =>
            (TwoAhead(Cur, Owner) \in ResultSet => Cur[1] = StartRow(Owner)))
    /\ [][(/\ lastOp'.op = "move_to"
           /\ lastOp'.piece.kind = "Pawn"
           /\ OnBoard(board, lastOp'.piece)
           /\ find_piece(board, lastOp'.piece)[1] = StartRow(lastOp'.piece.player)
           /\ lastMove'.square = OneAhead(find_piece(board, lastOp'.piece), lastOp'.piece.player))
          => LET p == lastOp'.piece
                 now == lastMove'.square
                 out == get_available_moves(board', p)
             IN  /\ find_piece(board', p) = now
                 /\ out.raised = "none"
                 /\ Empty(board', OneAhead(now, p.player))
                       => OneAhead(now, p.player) \in SeqToSet(out.moves)
                 /\ TwoAhead(now, p.player) \notin SeqToSet(out.moves)]_vars
    /\ [][(/\ lastOp.op = "move_to"
           /\ lastOp.piece.kind = "Pawn"
           /\ result.raised = "none"
           /\ lastMove.square[1] = StartRow(lastOp.piece.player) + Forward(lastOp.piece.player)
           /\ lastOp' = [op |-> "get_available_moves", piece |-> lastOp.piece])
          => LET p == lastOp.piece
             IN  /\ result'.raised = "none"
                 /\ Empty(board, OneAhead(lastMove.square, p.player))
                       => OneAhead(lastMove.square, p.player) \in SeqToSet(result'.moves)
                 /\ TwoAhead(lastMove.square, p.player) \notin SeqToSet(result'.moves)]_vars

\* A pawn queried after move_to put it one row past its start row: it gets the
\* square ahead and not the empty square two ahead.
C4_Witness ==
    /\ QueriedKind({"Pawn"})
    /\ result.raised = "none"
    /\ lastMove.op = "move_to"
    /\ lastMove.piece = lastOp.piece
    /\ Cur = lastMove.square
    /\ Cur[1] = StartRow(Owner) + Forward(Owner)
    /\ Empty(board, TwoAhead(Cur, Owner))
    /\ result.moves = <<OneAhead(Cur, Owner)>>

\* What move_to(p, t) must have done in a step from a board holding p.
Relocated(p, t) ==
    LET from == find_piece(board, p)
    IN  /\ result'.raised = "none"
        /\ get_piece(board', t) = p
        /\ Empty(board', from)
        /\ \A q \in pool \ {p} : get_piece(board, t) = q => ~OnBoard(board', q)
        /\ {x \in board' : x[1] \notin {from, t}} = {x \in board : x[1] \notin {from, t}}

C8_AbsentPieceRaises ==
    [][(/\ lastOp'.op \in {"get_available_moves", "move_to"}
        /\ ~OnBoard(board, lastOp'.piece))
          => /\ result'.raised = "PieceNotFoundError"
             /\ result'.moves = <<>>
             /\ board' = board]_vars

\* A query on a piece that was removed when another piece moved onto it.
C8_Witness ==
    /\ Queried
    /\ result.raised = "PieceNotFoundError"
    /\ lastMove.op = "move_to"
    /\ lastMove.took = lastOp.piece
    /\ ~OnBoard(board, lastOp.piece)

\* C9: a query changes neither the board's occupancy nor any piece's owner.
C9_QueryLeavesBoard ==
    [][lastOp'.op = "get_available_moves" => board' = board /\ pool' = pool]_vars

\* A query that returned a capture square whose hostile occupant still stands.
C9_Witness ==
    /\ Completed
    /\ \E t \in ResultSet : Hostile(board, t, Owner)
    /\ Cardinality(board) = 2

\* C10: a query repeated with nothing in between returns the same squares in
\* the same order.
C10_RepeatedQuerySame ==
    [][(lastOp.op = "get_available_moves" /\ lastOp' = lastOp) => result' = result]_vars

\* A queried rook whose list holds a capture followed by further directions.
C10_Witness ==
    /\ QueriedKind({"Rook"})
    /\ result.raised = "none"
    /\ \E i \in 1 .. Len(result.moves) :
          Hostile(board, result.moves[i], Owner) /\ i < Len(result.moves)
    /\ result.moves = get_available_moves(board, lastOp.piece).moves

\* A newly constructed piece of p's class and player (an object no call has
\* touched).
Fresh(p) == Piece(2, p.kind, p.player)

\* A new board given the occupancy of b square by square through set_piece,
\* with the fresh piece standing where b reports p.
RECURSIVE Rebuilt(_, _, _)
Rebuilt(b, p, todo) ==
    IF todo = {} THEN EmptyBoard
    ELSE LET sq == CHOOSE s \in todo : TRUE
             occupant == get_piece(b, sq)
         IN  set_piece(Rebuilt(b, p, todo \ {sq}), sq,
                       IF occupant = p THEN Fresh(p) ELSE occupant)

\* C11: after any set_piece and move_to calls, a query on a piece of the board
\* gives what a fresh piece of the same kind and owner gets on the same square
\* of a board with the same occupancy (same outcome, same squares in order).
C11_HistoryFree ==
    (Queried /\ OnBoard(board, lastOp.piece)) =>
        LET p == lastOp.piece
            fresh == get_available_moves(Rebuilt(board, p, {x[1] : x \in board}), Fresh(p))
        IN  /\ find_piece(Rebuilt(board, p, {x[1] : x \in board}), Fresh(p)) = Cur
            /\ result.raised = fresh.raised
            /\ result.moves = fresh.moves

\* A pawn that move_to brought from another square onto its start row, with
\* the other piece on the board: it is offered both squares, like a pawn newly
\* placed there.
C11_Witness ==
    /\ QueriedKind({"Pawn"})
    /\ result.raised = "none"
    /\ lastMove.op = "move_to"
    /\ lastMove.piece = lastOp.piece
    /\ Cur = lastMove.square
    /\ lastMove.took = None
    /\ Cur[1] = StartRow(Owner)
    /\ Cardinality(board) = 2
    /\ result.moves = <<OneAhead(Cur, Owner), TwoAhead(Cur, Owner)>>

====
